---- MODULE Spec2Model ----
(***************************************************************************)
(* ABI interface descriptors of py-algorand-sdk: Argument, Returns,        *)
(* Method (algosdk/abi/method.py), NetworkInfo and Contract                *)
(* (algosdk/abi/contract.py): construction, equality, the structural diff  *)
(* (^), equivalence, (de)serialization to nested maps, lookup by name and  *)
(* the method signature parser.                                            *)
(*                                                                         *)
(* Python values are represented as follows.                               *)
(*   str            a TLA+ string (a signature: a sequence of characters)  *)
(*   optional str   None (the empty tuple) or <<s>>                        *)
(*   dict           a function whose domain is the set of keys present     *)
(*   list           a sequence                                             *)
(*   object         a record of its attributes                             *)
(*   a type held by an Argument or Returns: [kind, s], kind "str" for a    *)
(*   plain string (transaction type, reference type, "void") and           *)
(*   "ABIType" for an object built by abi.ABIType.from_string              *)
(*   a diff result: a record tagged "None", "tuple", "str", "dict", "list" *)
(*   a call result: [status |-> "ok", value |-> v] or                      *)
(*   [status |-> "raised", error |-> e]                                    *)
(***************************************************************************)
EXTENDS Integers, Sequences, FiniteSets, TLC

VARIABLES kind, a, b, op, res

vars == <<kind, a, b, op, res>>

-----------------------------------------------------------------------------
(* Bounds of the model.                                                    *)

MaxSigLen == 5
MaxArgs == 1
MaxMethods == 2

-----------------------------------------------------------------------------
(* Python basics.                                                          *)

None == <<>>

Some(s) == <<s>>

\* bool(x) of an optional string: None and "" are falsy.
StrTruthy(x) == x # None /\ x[1] # ""

\* The strings of the model in Python's (code point) order.
StrOrder == <<"", "a", "account", "c", "d", "f", "g", "n1", "n2", "pay", "uint64", "void">>

StrRank(s) == CHOOSE n \in 1..Len(StrOrder) : StrOrder[n] = s

StrLt(x, y) == StrRank(x) < StrRank(y)

\* Python's < on tuples of strings.
RECURSIVE TupleLt(_, _)
TupleLt(xs, ys) ==
    IF ys = <<>> THEN FALSE
    ELSE IF xs = <<>> THEN TRUE
    ELSE IF xs[1] # ys[1] THEN StrLt(xs[1], ys[1])
    ELSE TupleLt(Tail(xs), Tail(ys))

Ok(v) == [status |-> "ok", value |-> v]

Raised(e) == [status |-> "raised", error |-> e]

\* sorted(xs, key), which is stable: an element comes after the elements of
\* smaller key and after the earlier elements of equal key. lt[i, j] is
\* key(xs[i]) < key(xs[j]).
Sorted(xs, lt) ==
    LET pos(i) == 1 + Cardinality({j \in DOMAIN xs :
                        lt[j, i] \/ (~lt[i, j] /\ j < i)})
    IN  [p \in 1..Len(xs) |-> xs[CHOOSE i \in DOMAIN xs : pos(i) = p]]

\* sorted(S) of a set of strings.
RECURSIVE SortedSet(_)
SortedSet(S) ==
    IF S = {} THEN <<>>
    ELSE LET m == CHOOSE x \in S : \A y \in S : ~StrLt(y, x)
         IN  <<m>> \o SortedSet(S \ {m})

\* All sequences over S of length at most n.
SeqsUpTo(S, n) == UNION {[1..k -> S] : k \in 0..n}

-----------------------------------------------------------------------------
(* The ABI type system the descriptors delegate to (algosdk.abi).          *)

TxnTypeStrings == {"pay"}

RefTypeStrings == {"account"}

PyStr(s) == [kind |-> "str", s |-> s]

is_abi_transaction_type(t) == t.kind = "str" /\ t.s \in TxnTypeStrings

is_abi_reference_type(t) == t.kind = "str" /\ t.s \in RefTypeStrings

ABIType_from_string(s) == [kind |-> "ABIType", s |-> s]

\* str(t) of a held type.
TypeStr(t) == t.s

-----------------------------------------------------------------------------
(* Diff results and the generic differs of method.py.                      *)

DNone == [tag |-> "None"]

DTuple(x, y) == [tag |-> "tuple", items |-> <<x, y>>]

DStr(s) == [tag |-> "str", val |-> s]

DDict(f) == [tag |-> "dict", items |-> f]

DList(l) == [tag |-> "list", items |-> l]

\* bool(d) of a diff result.
Truthy(d) ==
    CASE d.tag = "None" -> FALSE
      [] d.tag = "tuple" -> Len(d.items) > 0
      [] d.tag = "str" -> d.val # ""
      [] d.tag = "dict" -> DOMAIN d.items # {}
      [] d.tag = "list" -> Len(d.items) > 0

\* _differ on values without a dictify method. The one non-erasing call
\* passes a str (a Method's name).
_differ(x, y, dont_erase) ==
    IF dont_erase THEN DStr(x)
    ELSE IF x = y THEN DNone
    ELSE DTuple(x, y)

-----------------------------------------------------------------------------
(* Argument.                                                               *)

Argument(arg_type, name, desc) ==
    [type |-> IF \/ is_abi_transaction_type(PyStr(arg_type))
                 \/ is_abi_reference_type(PyStr(arg_type))
              THEN PyStr(arg_type)
              ELSE ABIType_from_string(arg_type),
     name |-> name,
     desc |-> desc]

ArgumentEq(self, o) ==
    self.name = o.name /\ self.type = o.type /\ self.desc = o.desc

ArgumentXor(self, other) ==
    IF ArgumentEq(self, other) THEN DNone
    ELSE DDict([type |-> _differ(TypeStr(self.type), TypeStr(other.type), FALSE),
                name |-> _differ(self.name, other.name, FALSE),
                desc |-> _differ(self.desc, other.desc, FALSE)])

ArgumentEquivalent(self, other) == TypeStr(self.type) = TypeStr(other.type)

ArgumentDictify(self) ==
    LET keys == {"type"}
                \cup (IF StrTruthy(self.name) THEN {"name"} ELSE {})
                \cup (IF StrTruthy(self.desc) THEN {"desc"} ELSE {})
    IN  [k \in keys |->
            CASE k = "type" -> TypeStr(self.type)
              [] k = "name" -> self.name[1]
              [] k = "desc" -> self.desc[1]]

ArgumentUndictify(d) ==
    Argument(d["type"],
             IF "name" \in DOMAIN d THEN Some(d["name"]) ELSE None,
             IF "desc" \in DOMAIN d THEN Some(d["desc"]) ELSE None)

ArgumentListEq(xs, ys) ==
    Len(xs) = Len(ys) /\ \A i \in 1..Len(xs) : ArgumentEq(xs[i], ys[i])

\* _mdifc on a list of Arguments.
_mdifc(xs) == [i \in 1..Len(xs) |-> ArgumentDictify(xs[i])]

\* _ldiffer on two lists of Arguments.
_ldiffer(xs, ys) ==
    IF ArgumentListEq(xs, ys) THEN DNone
    ELSE IF Len(xs) = Len(ys)
         THEN DList([i \in 1..Len(xs) |-> ArgumentXor(xs[i], ys[i])])
         ELSE DTuple(_mdifc(xs), _mdifc(ys))

-----------------------------------------------------------------------------
(* Returns.                                                                *)

Returns(arg_type, desc) ==
    [type |-> IF arg_type = "void" THEN PyStr("void")
              ELSE ABIType_from_string(arg_type),
     desc |-> desc]

ReturnsEq(self, o) == self.type = o.type /\ self.desc = o.desc

ReturnsXor(self, other) ==
    IF ReturnsEq(self, other) THEN DNone
    ELSE DDict([type |-> _differ(self.type, other.type, FALSE),
                desc |-> _differ(self.desc, other.desc, FALSE)])

ReturnsEquivalent(self, other) == TypeStr(self.type) = TypeStr(other.type)

ReturnsDictify(self) ==
    LET keys == {"type"} \cup (IF StrTruthy(self.desc) THEN {"desc"} ELSE {})
    IN  [k \in keys |->
            CASE k = "type" -> TypeStr(self.type)
              [] k = "desc" -> self.desc[1]]

ReturnsUndictify(d) ==
    Returns(d["type"], IF "desc" \in DOMAIN d THEN Some(d["desc"]) ELSE None)

-----------------------------------------------------------------------------
(* Method.                                                                 *)

Method(name, args, returns, desc, canonical) ==
    [name |-> name,
     args |-> args,
     desc |-> desc,
     returns |-> returns,
     txn_calls |-> 1 + Cardinality({i \in 1..Len(args) :
                                       is_abi_transaction_type(args[i].type)}),
     canonical |-> canonical]

canonicalized(self) == [self EXCEPT !.canonical = TRUE]

MethodEq(self, o) ==
    /\ self.name = o.name
    /\ ArgumentListEq(self.args, o.args)
    /\ ReturnsEq(self.returns, o.returns)
    /\ self.desc = o.desc
    /\ self.txn_calls = o.txn_calls

MethodXor(self, other) ==
    IF MethodEq(self, other) THEN DNone
    ELSE DDict([name |-> _differ(self.name, other.name, TRUE),
                desc |-> _differ(self.desc, other.desc, FALSE),
                args |-> _ldiffer(self.args, other.args),
                returns |-> ReturnsXor(self.returns, other.returns),
                txn_calls |-> _differ(self.txn_calls, other.txn_calls, FALSE)])

MethodEquivalentSkippingArgs(self, other) ==
    LET diff == MethodXor(self, other)
    IN  IF ~Truthy(diff) THEN TRUE
        ELSE IF Truthy(diff.items["returns"]) \/ Truthy(diff.items["txn_calls"])
             THEN FALSE
        ELSE IF diff.items["name"].tag # "str" THEN FALSE
        ELSE Len(self.args) = Len(other.args)

MethodEquivalent(self, other) ==
    LET diff == MethodXor(self, other)
    IN  IF ~Truthy(diff) THEN TRUE
        ELSE IF Truthy(diff.items["returns"]) \/ Truthy(diff.items["txn_calls"])
             THEN FALSE
        ELSE IF diff.items["name"].tag # "str" THEN FALSE
        ELSE IF Len(self.args) # Len(other.args) THEN FALSE
        ELSE \A i \in 1..Len(self.args) :
                ArgumentEquivalent(self.args[i], other.args[i])

MethodDictify(self) ==
    LET keys == {"name", "args", "returns"}
                \cup (IF StrTruthy(self.desc) THEN {"desc"} ELSE {})
        d == [k \in keys |->
                CASE k = "name" -> self.name
                  [] k = "args" -> [i \in 1..Len(self.args) |->
                                        ArgumentDictify(self.args[i])]
                  [] k = "returns" -> ReturnsDictify(self.returns)
                  [] k = "desc" -> self.desc[1]]
        \* d.get("desc")
        got == IF "desc" \in DOMAIN d THEN Some(d["desc"]) ELSE None
        ckeys == {"name", "args", "returns"}
                 \cup (IF got = None THEN {} ELSE {"desc"})
    IN  IF self.canonical
        THEN [k \in ckeys |-> IF k = "desc" THEN got[1] ELSE d[k]]
        ELSE d

MethodUndictify(d) ==
    Method(d["name"],
           [i \in 1..Len(d["args"]) |-> ArgumentUndictify(d["args"][i])],
           ReturnsUndictify(d["returns"]),
           IF "desc" \in DOMAIN d THEN Some(d["desc"]) ELSE None,
           FALSE)

MethodListEq(xs, ys) ==
    Len(xs) = Len(ys) /\ \A i \in 1..Len(xs) : MethodEq(xs[i], ys[i])

GetMethodByNameFirstMatch(methods, name) ==
    LET methods_filtered == SelectSeq(methods, LAMBDA m : m.name = name)
    IN  IF Len(methods_filtered) = 0 THEN Raised("KeyError")
        ELSE Ok(methods_filtered[1])

get_method_by_name(methods, name) ==
    LET methods_filtered == SelectSeq(methods, LAMBDA m : m.name = name)
    IN  IF Len(methods_filtered) > 1 THEN Raised("KeyError")
        ELSE IF Len(methods_filtered) = 0 THEN Raised("KeyError")
        ELSE Ok(methods_filtered[1])

-----------------------------------------------------------------------------
(* NetworkInfo.                                                            *)

NetworkInfo(app_id) == [app_id |-> app_id]

NetworkInfoEq(self, o) == self.app_id = o.app_id

NetworkInfoXor(self, other) ==
    IF NetworkInfoEq(self, other) THEN DNone
    ELSE DDict([appID |-> _differ(self.app_id, other.app_id, FALSE)])

NetworkInfoDictify(self) == [appID |-> self.app_id]

\* d["appID"]: d is a dict holding the key, a dict without it (KeyError) or
\* an object that is no dict (TypeError: not subscriptable).
NetworkInfoUndictify(d) ==
    IF "appID" \in DOMAIN d THEN Ok(NetworkInfo(d["appID"]))
    ELSE IF "app_id" \in DOMAIN d THEN Raised("TypeError")
    ELSE Raised("KeyError")

NetworksEq(xs, ys) ==
    DOMAIN xs = DOMAIN ys /\ \A k \in DOMAIN xs : NetworkInfoEq(xs[k], ys[k])

DdifferOneSidedKeysOnly(xs, ys) ==
    IF NetworksEq(xs, ys) THEN DNone
    ELSE LET x_only_keys == DOMAIN xs \ DOMAIN ys
             y_only_keys == DOMAIN ys \ DOMAIN xs
         IN  DDict([k \in x_only_keys \cup y_only_keys |->
                      IF k \in x_only_keys
                      THEN DTuple(NetworkInfoDictify(xs[k]), DNone)
                      ELSE DTuple(DNone, NetworkInfoDictify(ys[k]))])

\* _ddiffer on two dicts of NetworkInfo.
_ddiffer(xs, ys) ==
    IF NetworksEq(xs, ys) THEN DNone
    ELSE LET x_only_keys == DOMAIN xs \ DOMAIN ys
             common_keys == DOMAIN xs \cap DOMAIN ys
             y_only_keys == DOMAIN ys \ DOMAIN xs
         IN  DDict([k \in common_keys \cup x_only_keys \cup y_only_keys |->
                      IF k \in common_keys THEN NetworkInfoXor(xs[k], ys[k])
                      ELSE IF k \in x_only_keys
                           THEN DTuple(NetworkInfoDictify(xs[k]), DNone)
                           ELSE DTuple(DNone, NetworkInfoDictify(ys[k]))])

-----------------------------------------------------------------------------
(* Contract.                                                               *)

EmptyDict == [k \in {} |-> None]

\* networks is None or a dict; a falsy one (None, {}: no key) becomes {}.
Contract(name, methods, desc, networks, canonical) ==
    [name |-> name,
     methods |-> methods,
     desc |-> desc,
     networks |-> IF DOMAIN networks = {} THEN EmptyDict ELSE networks,
     canonical |-> canonical]

ContractEq(self, o) ==
    /\ self.name = o.name
    /\ MethodListEq(self.methods, o.methods)
    /\ self.desc = o.desc
    /\ NetworksEq(self.networks, o.networks)

\* The sort key of method_sort: (meth["name"], tuple of the args' "type").
MethodSortKeyLt(m1, m2) ==
    IF m1["name"] # m2["name"] THEN StrLt(m1["name"], m2["name"])
    ELSE TupleLt([i \in 1..Len(m1["args"]) |-> m1["args"][i]["type"]],
                 [i \in 1..Len(m2["args"]) |-> m2["args"][i]["type"]])

method_sort(methods) ==
    Sorted(methods, [i \in DOMAIN methods, j \in DOMAIN methods |->
                        MethodSortKeyLt(methods[i], methods[j])])

ContractDictify(self) ==
    LET meths == IF self.canonical
                 THEN [i \in 1..Len(self.methods) |-> canonicalized(self.methods[i])]
                 ELSE self.methods
        keys == {"name", "methods", "networks"}
                \cup (IF self.desc # None THEN {"desc"} ELSE {})
        d == [k \in keys |->
                CASE k = "name" -> self.name
                  [] k = "methods" -> [i \in 1..Len(meths) |-> MethodDictify(meths[i])]
                  [] k = "networks" -> [n \in DOMAIN self.networks |->
                                            NetworkInfoDictify(self.networks[n])]
                  [] k = "desc" -> self.desc[1]]
    IN  IF self.canonical
        THEN [k \in keys |->
                IF k = "methods" THEN method_sort(d["methods"])
                ELSE d[k]]
        ELSE d

_has_overloaded_methods(self) ==
    LET ms == ContractDictify(self)["methods"]
    IN  \E i, j \in 1..Len(ms) : i # j /\ ms[i]["name"] = ms[j]["name"]

MethodNames(methods) == {methods[i].name : i \in 1..Len(methods)}

\* {m.name: m for m in methods}[n]: the last method of that name.
MethodNamed(methods, n) ==
    LET i == CHOOSE i \in 1..Len(methods) :
                /\ methods[i].name = n
                /\ \A j \in (i + 1)..Len(methods) : methods[j].name # n
    IN  methods[i]

ContractMethodsDiff(self, other) ==
    IF MethodListEq(self.methods, other.methods) THEN DNone
    ELSE IF _has_overloaded_methods(self) \/ _has_overloaded_methods(other)
    THEN DTuple(ContractDictify(self)["methods"], ContractDictify(other)["methods"])
    ELSE LET snames == MethodNames(self.methods)
             onames == MethodNames(other.methods)
             s_only == SortedSet(snames \ onames)
             both == SortedSet(snames \cap onames)
             o_only == SortedSet(onames \ snames)
         IN  DList([i \in 1..Len(both) |->
                        MethodXor(MethodNamed(self.methods, both[i]),
                                  MethodNamed(other.methods, both[i]))]
                   \o [i \in 1..Len(s_only) |->
                        DTuple(MethodDictify(MethodNamed(self.methods, s_only[i])), DNone)]
                   \o [i \in 1..Len(o_only) |->
                        DTuple(DNone, MethodDictify(MethodNamed(other.methods, o_only[i])))])

ContractXorIgnoringDesc(self, other) ==
    IF /\ self.name = other.name
       /\ MethodListEq(self.methods, other.methods)
       /\ NetworksEq(self.networks, other.networks)
    THEN DNone
    ELSE DDict([name |-> _differ(self.name, other.name, FALSE),
                desc |-> _differ(self.desc, other.desc, FALSE),
                methods |-> ContractMethodsDiff(self, other),
                networks |-> _ddiffer(self.networks, other.networks)])

ContractXor(self, other) ==
    IF ContractEq(self, other) THEN DNone
    ELSE DDict([name |-> _differ(self.name, other.name, FALSE),
                desc |-> _differ(self.desc, other.desc, FALSE),
                methods |-> ContractMethodsDiff(self, other),
                networks |-> _ddiffer(self.networks, other.networks)])

\* sorted(methods, key=lambda m: m.name)
SortedByName(methods) ==
    Sorted(methods, [i \in DOMAIN methods, j \in DOMAIN methods |->
                        StrLt(methods[i].name, methods[j].name)])

ContractEquivalentUnsorted(self, other) ==
    LET diff == ContractXor(self, other)
    IN  IF ~Truthy(diff) THEN TRUE
        ELSE IF /\ Truthy(diff.items["methods"])
                /\ \/ Len(self.methods) # Len(other.methods)
                   \/ \E i \in 1..Len(self.methods) :
                         ~MethodEquivalent(self.methods[i], other.methods[i])
             THEN FALSE
        ELSE ~Truthy(diff.items["networks"])

ContractEquivalent(self, other) ==
    LET diff == ContractXor(self, other)
        smethods == SortedByName(self.methods)
        omethods == SortedByName(other.methods)
    IN  IF ~Truthy(diff) THEN TRUE
        ELSE IF /\ Truthy(diff.items["methods"])
                /\ \/ Len(self.methods) # Len(other.methods)
                   \/ \E i \in 1..Len(smethods) :
                         ~MethodEquivalent(smethods[i], omethods[i])
             THEN FALSE
        ELSE ~Truthy(diff.items["networks"])

\* The loop "for k, v in networks.items(): networks[k] = NetworkInfo.undictify(v)"
\* over the keys still to visit: the dict as the loop leaves it, and whether
\* it ran to its end.
RECURSIVE UndictifyNetworks(_, _)
UndictifyNetworks(networks, keys) ==
    IF keys = <<>> THEN [networks |-> networks, raised |-> None]
    ELSE LET r == NetworkInfoUndictify(networks[keys[1]])
         IN  IF r.status = "raised"
             THEN [networks |-> networks, raised |-> Some(r.error)]
             ELSE UndictifyNetworks([networks EXCEPT ![keys[1]] = r.value],
                                    Tail(keys))

\* Contract.undictify(d): the result of the call, and d as the call leaves
\* it (the networks dict of d is updated in place and shared with the
\* Contract built).
ContractUndictify(d) ==
    LET name == d["name"]
        method_list == [i \in 1..Len(d["methods"]) |-> MethodUndictify(d["methods"][i])]
        desc == IF "desc" \in DOMAIN d THEN Some(d["desc"]) ELSE None
        networks == IF "networks" \in DOMAIN d THEN d["networks"] ELSE EmptyDict
        r == UndictifyNetworks(networks, SortedSet(DOMAIN networks))
        after == IF "networks" \in DOMAIN d
                 THEN [d EXCEPT !["networks"] = r.networks]
                 ELSE d
    IN  [d |-> after,
         result |-> IF r.raised # None THEN Raised(r.raised[1])
                    ELSE Ok(Contract(name, method_list, desc, r.networks, FALSE))]

-----------------------------------------------------------------------------
(* The values the operations are applied to.                               *)

OptStrs == {None, Some(""), Some("a")}

PairOptStrs == {None, Some("a")}

ArgTypeStrings == {"uint64", "account", "pay"}

RetTypeStrings == {"void", "uint64"}

MethodNameStrings == {"f", "g"}

AppIds == {1, 2}

Arguments ==
    {Argument(t, n, d) : t \in ArgTypeStrings, n \in OptStrs, d \in OptStrs}

ReturnsValues == {Returns(t, d) : t \in RetTypeStrings, d \in OptStrs}

NetworkInfos == {NetworkInfo(n) : n \in AppIds}

Methods ==
    {Method(n, args, r, d, FALSE) :
        n \in MethodNameStrings, args \in SeqsUpTo(Arguments, MaxArgs),
        r \in ReturnsValues, d \in OptStrs}

\* The dicts of NetworkInfo over some of the given network ids.
NetworkMaps(ids) == UNION {[S -> NetworkInfos] : S \in SUBSET ids}

\* Methods of a Contract: three overloads of f, two of them with the same
\* argument types, and g.
PoolMethods ==
    {Method("f", <<Argument("uint64", None, None)>>, Returns("void", None), None, FALSE),
     Method("f", <<Argument("uint64", Some("a"), None)>>, Returns("void", None), None, FALSE),
     Method("f", <<Argument("account", None, None)>>, Returns("void", None), None, FALSE),
     Method("g", <<>>, Returns("void", None), None, FALSE)}

\* Contracts to serialize: some hold a method with empty descriptions.
Contracts ==
    {Contract("c", ms, d, nw, FALSE) :
        ms \in SeqsUpTo(PoolMethods
                        \cup {Method("g", <<>>, Returns("void", Some("")), Some(""), FALSE)},
                        MaxMethods),
        d \in OptStrs, nw \in NetworkMaps({"n1", "n2"})}

\* Pairs of values for the diff and the equivalence.
PairArguments ==
    {Argument(t, n, None) : t \in ArgTypeStrings, n \in PairOptStrs}
    \cup {Argument(t, None, Some("a")) : t \in ArgTypeStrings}

PairReturns == {Returns(t, d) : t \in RetTypeStrings, d \in PairOptStrs}

PairMethods ==
    {Method(n, args, r, d, FALSE) :
        n \in MethodNameStrings, args \in SeqsUpTo(PairArguments, MaxArgs),
        r \in PairReturns, d \in PairOptStrs}

PairContractsOf(canonical) ==
    {Contract("c", ms, d, nw, canonical) :
        ms \in SeqsUpTo(PoolMethods, MaxMethods),
        d \in PairOptStrs, nw \in NetworkMaps({"n1"})}

PairContracts == PairContractsOf(FALSE)

-----------------------------------------------------------------------------
(* The diff x ^ y.                                                         *)

InitArgumentPair ==
    kind = "Argument" /\ a \in Arguments /\ b \in Arguments

InitReturnsPair ==
    kind = "Returns" /\ a \in ReturnsValues /\ b \in ReturnsValues

InitNetworkInfoPair ==
    kind = "NetworkInfo" /\ a \in NetworkInfos /\ b \in NetworkInfos

InitMethodPair ==
    kind = "Method" /\ a \in PairMethods /\ b \in PairMethods

InitContractPair ==
    kind = "Contract" /\ a \in PairContracts /\ b \in PairContracts

InitXor ==
    /\ \/ InitArgumentPair
       \/ InitReturnsPair
       \/ InitNetworkInfoPair
       \/ InitMethodPair
       \/ InitContractPair
    /\ op = "init"
    /\ res = None

XorArgument ==
    /\ kind = "Argument"
    /\ op = "init"
    /\ op' = "xor"
    /\ res' = ArgumentXor(a, b)
    /\ UNCHANGED <<kind, a, b>>

XorReturns ==
    /\ kind = "Returns"
    /\ op = "init"
    /\ op' = "xor"
    /\ res' = ReturnsXor(a, b)
    /\ UNCHANGED <<kind, a, b>>

XorNetworkInfo ==
    /\ kind = "NetworkInfo"
    /\ op = "init"
    /\ op' = "xor"
    /\ res' = NetworkInfoXor(a, b)
    /\ UNCHANGED <<kind, a, b>>

XorMethod ==
    /\ kind = "Method"
    /\ op = "init"
    /\ op' = "xor"
    /\ res' = MethodXor(a, b)
    /\ UNCHANGED <<kind, a, b>>

XorContract ==
    /\ kind = "Contract"
    /\ op = "init"
    /\ op' = "xor"
    /\ res' = ContractXor(a, b)
    /\ UNCHANGED <<kind, a, b>>

NextXor ==
    \/ XorArgument
    \/ XorReturns
    \/ XorNetworkInfo
    \/ XorMethod
    \/ XorContract

SpecXor == InitXor /\ [][NextXor]_vars

-----------------------------------------------------------------------------
(* equivalent.                                                             *)

InitEquivalent ==
    /\ \/ InitMethodPair
       \/ InitContractPair
    /\ op = "init"
    /\ res = None

EquivalentMethod ==
    /\ kind = "Method"
    /\ op = "init"
    /\ op' = "equivalent"
    /\ res' = MethodEquivalent(a, b)
    /\ UNCHANGED <<kind, a, b>>

EquivalentContract ==
    /\ kind = "Contract"
    /\ op = "init"
    /\ op' = "equivalent"
    /\ res' = ContractEquivalent(a, b)
    /\ UNCHANGED <<kind, a, b>>

NextEquivalent == EquivalentMethod \/ EquivalentContract

SpecEquivalent == InitEquivalent /\ [][NextEquivalent]_vars

-----------------------------------------------------------------------------
(* dictify and undictify. a is the value, b the map dictify built from it, *)
(* which undictify is then called with (any number of times).              *)

InitCodec ==
    /\ \/ kind = "Argument" /\ a \in Arguments
       \/ kind = "Returns" /\ a \in ReturnsValues
       \/ kind = "Method" /\ a \in Methods
       \/ kind = "Contract" /\ a \in Contracts
    /\ b = None
    /\ op = "init"
    /\ res = None

DictifyArgument ==
    /\ kind = "Argument"
    /\ op = "init"
    /\ op' = "dictify"
    /\ b' = ArgumentDictify(a)
    /\ UNCHANGED <<kind, a, res>>

DictifyReturns ==
    /\ kind = "Returns"
    /\ op = "init"
    /\ op' = "dictify"
    /\ b' = ReturnsDictify(a)
    /\ UNCHANGED <<kind, a, res>>

DictifyMethod ==
    /\ kind = "Method"
    /\ op = "init"
    /\ op' = "dictify"
    /\ b' = MethodDictify(a)
    /\ UNCHANGED <<kind, a, res>>

DictifyContract ==
    /\ kind = "Contract"
    /\ op = "init"
    /\ op' = "dictify"
    /\ b' = ContractDictify(a)
    /\ UNCHANGED <<kind, a, res>>

UndictifyArgument ==
    /\ kind = "Argument"
    /\ op = "dictify"
    /\ op' = "undictify"
    /\ res' = Ok(ArgumentUndictify(b))
    /\ UNCHANGED <<kind, a, b>>

UndictifyReturns ==
    /\ kind = "Returns"
    /\ op = "dictify"
    /\ op' = "undictify"
    /\ res' = Ok(ReturnsUndictify(b))
    /\ UNCHANGED <<kind, a, b>>

UndictifyMethod ==
    /\ kind = "Method"
    /\ op = "dictify"
    /\ op' = "undictify"
    /\ res' = Ok(MethodUndictify(b))
    /\ UNCHANGED <<kind, a, b>>

UndictifyContract ==
    /\ kind = "Contract"
    /\ op \in {"dictify", "undictify"}
    /\ op' = "undictify"
    /\ LET r == ContractUndictify(b)
       IN  b' = r.d /\ res' = r.result
    /\ UNCHANGED <<kind, a>>

NextCodec ==
    \/ DictifyArgument
    \/ DictifyReturns
    \/ DictifyMethod
    \/ DictifyContract
    \/ UndictifyArgument
    \/ UndictifyReturns
    \/ UndictifyMethod
    \/ UndictifyContract

SpecCodec == InitCodec /\ [][NextCodec]_vars

-----------------------------------------------------------------------------
(* Canonical serialization of two Contracts.                               *)

InitCanonical ==
    /\ kind = "Contract"
    /\ a \in PairContractsOf(TRUE)
    /\ b \in PairContractsOf(TRUE)
    /\ op = "init"
    /\ res = None

DictifyCanonical ==
    /\ op = "init"
    /\ op' = "dictify"
    /\ res' = <<ContractDictify(a), ContractDictify(b)>>
    /\ UNCHANGED <<kind, a, b>>

NextCanonical == DictifyCanonical

SpecCanonical == InitCanonical /\ [][NextCanonical]_vars

-----------------------------------------------------------------------------
(* Contract.get_method_by_name: a is the Contract, b the name.             *)

InitLookup ==
    /\ kind = "Contract"
    /\ a \in PairContracts
    /\ b \in MethodNameStrings \cup {"a"}
    /\ op = "init"
    /\ res = None

GetMethodByName ==
    /\ op = "init"
    /\ op' = "get_method_by_name"
    /\ res' = get_method_by_name(a.methods, b)
    /\ UNCHANGED <<kind, a, b>>

NextLookup == GetMethodByName

SpecLookup == InitLookup /\ [][NextLookup]_vars

-----------------------------------------------------------------------------
(* Signature parser: Method._parse_string.                                 *)

ParseReturnsAtFirstClose(s) ==
    IF \E i \in 1..Len(s) : s[i] = "(" /\ \E j \in (i + 1)..Len(s) : s[j] = ")"
    THEN LET left == CHOOSE i \in 1..Len(s) :
                        s[i] = "(" /\ \A k \in 1..(i - 1) : s[k] # "("
             right == CHOOSE j \in (left + 1)..Len(s) :
                        s[j] = ")" /\ \A k \in (left + 1)..(j - 1) : s[k] # ")"
         IN  Ok(<<SubSeq(s, 1, left - 1), SubSeq(s, left + 1, right - 1),
                  SubSeq(s, right + 1, Len(s))>>)
    ELSE Raised("ABIEncodingError")

\* The loop of _parse_string from character i (1-based) with the given stack
\* of indices of unmatched "(".
RECURSIVE ParseScan(_, _, _)
ParseScan(s, i, stack) ==
    IF i > Len(s) THEN Raised("ABIEncodingError")
    ELSE IF s[i] = "(" THEN ParseScan(s, i + 1, Append(stack, i))
    ELSE IF s[i] = ")" THEN
        IF stack = <<>> THEN Raised("ABIEncodingError")
        ELSE LET left_index == stack[Len(stack)]
                 popped == SubSeq(stack, 1, Len(stack) - 1)
             IN  IF popped = <<>>
                 THEN Ok(<<SubSeq(s, 1, left_index - 1),
                           SubSeq(s, left_index + 1, i - 1),
                           SubSeq(s, i + 1, Len(s))>>)
                 ELSE ParseScan(s, i + 1, popped)
    ELSE ParseScan(s, i + 1, stack)

_parse_string(s) == ParseScan(s, 1, <<>>)

SigAlphabet == {"f", "(", ")"}

Signatures == SeqsUpTo(SigAlphabet, MaxSigLen)

InitParse ==
    /\ kind = "Signature"
    /\ a \in Signatures
    /\ b = None
    /\ op = "init"
    /\ res = None

ParseString ==
    /\ kind = "Signature"
    /\ op = "init"
    /\ op' = "_parse_string"
    /\ res' = _parse_string(a)
    /\ UNCHANGED <<kind, a, b>>

NextParse == ParseString

SpecParse == InitParse /\ [][NextParse]_vars

-----------------------------------------------------------------------------
(* C9: _parse_string splits at the first fully closed top-level group.     *)

\* Number of "(" minus number of ")" among the first j characters of s.
RECURSIVE Depth(_, _)
Depth(s, j) ==
    IF j = 0 THEN 0
    ELSE Depth(s, j - 1) + (IF s[j] = "(" THEN 1 ELSE IF s[j] = ")" THEN -1 ELSE 0)

Balanced(s) ==
    /\ Depth(s, Len(s)) = 0
    /\ \A j \in 1..Len(s) : Depth(s, j) >= 0

\* A top-level group closes at i before any ")" is met with no open "(".
GroupCloses(s) ==
    \E i \in 1..Len(s) :
        /\ s[i] = ")"
        /\ Depth(s, i) = 0
        /\ \A j \in 1..(i - 1) : Depth(s, j) >= 0

\* C9: for every string s, _parse_string(s) either returns three tokens
\* [name, args, ret] with name + "(" + args + ")" + ret = s, no parenthesis in
\* name and balanced parentheses in args, or raises the malformed-signature
\* error; it raises exactly when no top-level group closes before the end of
\* s or before a ")" met with no open "(".
C9_ParseSplitsAtFirstClosedGroup ==
    op = "_parse_string" =>
        /\ res.status = "ok" =>
            /\ Len(res.value) = 3
            /\ res.value[1] \o <<"(">> \o res.value[2] \o <<")">> \o res.value[3] = a
            /\ \A k \in 1..Len(res.value[1]) : res.value[1][k] \notin {"(", ")"}
            /\ Balanced(res.value[2])
        /\ res.status = "raised" => res.error = "ABIEncodingError"
        /\ res.status = "raised" <=> ~GroupCloses(a)

\* A signature whose argument list itself holds a parenthesis group was parsed.
C9_Witness ==
    /\ op = "_parse_string"
    /\ res.status = "ok"
    /\ \E k \in 1..Len(res.value[2]) : res.value[2][k] = "("

-----------------------------------------------------------------------------
(* Claims about the descriptors.                                           *)

\* x == y of two values of one kind.
EqOf(k, x, y) ==
    CASE k = "Argument" -> ArgumentEq(x, y)
      [] k = "Returns" -> ReturnsEq(x, y)
      [] k = "NetworkInfo" -> NetworkInfoEq(x, y)
      [] k = "Method" -> MethodEq(x, y)
      [] k = "Contract" -> ContractEq(x, y)

\* C1: for every Argument, Returns, Method and Contract value v built in
\* non-canonical mode (each optional name/desc absent, empty or non-empty),
\* undictify(dictify(v)) == v.
C1_RoundTrip ==
    (op = "undictify" /\ res.status = "ok") => EqOf(kind, res.value, a)

\* C10: Contract.undictify(d) leaves the map d as it was - here the map
\* dictify built from a - so that every call on it succeeds.
C10_UndictifyLeavesMapUnchanged ==
    (kind = "Contract" /\ op = "undictify") =>
        /\ b = ContractDictify(a)
        /\ res.status = "ok"

\* C2: for every entity kind and every pair x, y of that kind, x ^ y is None
\* if and only if x == y.
C2_DiffNoneIffEqual ==
    op = "xor" => (res.tag = "None" <=> EqOf(kind, a, b))

\* Two Contracts that differ in desc alone were diffed, and the diff is a map.
C2_Witness ==
    /\ op = "xor"
    /\ kind = "Contract"
    /\ a.name = b.name
    /\ MethodListEq(a.methods, b.methods)
    /\ NetworksEq(a.networks, b.networks)
    /\ a.desc # b.desc
    /\ res.tag = "dict"

\* Same number of arguments, same type string at every position, same return
\* type string.
SameTypeStrings(m1, m2) ==
    /\ Len(m1.args) = Len(m2.args)
    /\ \A i \in 1..Len(m1.args) : TypeStr(m1.args[i].type) = TypeStr(m2.args[i].type)
    /\ TypeStr(m1.returns.type) = TypeStr(m2.returns.type)

\* C3: any two Methods with the same name, the same number of arguments, the
\* same type string at every argument position and the same return type
\* string are equivalent, whatever their argument names and desc fields.
C3_CosmeticChangesAreEquivalent ==
    (kind = "Method" /\ op = "equivalent" /\ a.name = b.name /\ SameTypeStrings(a, b))
        => res = TRUE

\* C4: whenever m1.equivalent(m2) is true, m1 and m2 have the same number of
\* arguments, the same type string at every argument position, the same
\* return type string and the same txn_calls.
C4_EquivalentMethodsAgreeOnTypes ==
    (kind = "Method" /\ op = "equivalent" /\ res = TRUE) =>
        /\ SameTypeStrings(a, b)
        /\ a.txn_calls = b.txn_calls

\* Two unequal Methods with an argument were found equivalent.
C4_Witness ==
    /\ kind = "Method"
    /\ op = "equivalent"
    /\ res = TRUE
    /\ ~MethodEq(a, b)
    /\ Len(a.args) >= 1

\* ys is a permutation of xs.
IsPermutation(xs, ys) ==
    /\ Len(xs) = Len(ys)
    /\ \E p \in Permutations(1..Len(xs)) :
          \A i \in 1..Len(xs) : MethodEq(xs[i], ys[p[i]])

\* Equal name, desc and networks, and method lists that are permutations of
\* each other.
SameUpToMethodOrder(c1, c2) ==
    /\ c1.name = c2.name
    /\ c1.desc = c2.desc
    /\ NetworksEq(c1.networks, c2.networks)
    /\ IsPermutation(c1.methods, c2.methods)

NoSharedMethodName(c) ==
    \A i, j \in 1..Len(c.methods) : i # j => c.methods[i].name # c.methods[j].name

\* C5 as stated: for any Contracts A and B with equal name, desc and networks,
\* where B's method list is a permutation of A's (methods sharing a name
\* allowed), A.equivalent(B) is true.
C5_PermutedMethodsAreEquivalent ==
    (kind = "Contract" /\ op = "equivalent" /\ SameUpToMethodOrder(a, b))
        => res = TRUE

\* C5 amended: for any Contracts A and B with equal name, desc and networks,
\* where no two methods of A share a name and B's method list is a
\* permutation of A's, A.equivalent(B) is true.
C5_PermutedDistinctNamesAreEquivalent ==
    (/\ kind = "Contract"
     /\ op = "equivalent"
     /\ SameUpToMethodOrder(a, b)
     /\ NoSharedMethodName(a))
        => res = TRUE

\* Two Contracts whose differently named methods come in a different order
\* were found equivalent.
C5_Witness ==
    /\ kind = "Contract"
    /\ op = "equivalent"
    /\ SameUpToMethodOrder(a, b)
    /\ NoSharedMethodName(a)
    /\ ~MethodListEq(a.methods, b.methods)
    /\ res = TRUE

\* A key present on one side only, or a shared key bound to another app_id.
NetworksDiffer(xs, ys) ==
    \/ DOMAIN xs # DOMAIN ys
    \/ \E k \in DOMAIN xs \cap DOMAIN ys : xs[k].app_id # ys[k].app_id

\* C6: any two Contracts whose networks mappings differ are not equivalent,
\* whatever their names, descs and methods.
C6_NetworksDifferNotEquivalent ==
    (kind = "Contract" /\ op = "equivalent" /\ NetworksDiffer(a.networks, b.networks))
        => res = FALSE

\* Two Contracts that differ only in the app_id bound to a shared network id
\* were found not equivalent.
C6_Witness ==
    /\ kind = "Contract"
    /\ op = "equivalent"
    /\ a.name = b.name
    /\ a.desc = b.desc
    /\ MethodListEq(a.methods, b.methods)
    /\ DOMAIN a.networks = DOMAIN b.networks
    /\ \E k \in DOMAIN a.networks : a.networks[k].app_id # b.networks[k].app_id
    /\ res = FALSE

\* C7: for any two Contracts in canonical mode with equal name, desc and
\* networks whose method lists are permutations of each other, dictify()
\* returns the same map, with the same methods sequence.
C7_CanonicalDictifyIgnoresOrder ==
    (op = "dictify" /\ a.canonical /\ b.canonical /\ SameUpToMethodOrder(a, b))
        => res[1] = res[2]

\* The positions of the Methods called name.
Matches(methods, name) == {i \in 1..Len(methods) : methods[i].name = name}

\* C8: get_method_by_name(methods, name) returns a Method m iff m is the only
\* Method in the list whose name equals name; it raises an error when no
\* Method has that name and when two or more Methods have it.
C8_LookupNeverArbitrary ==
    op = "get_method_by_name" =>
        LET found == Matches(a.methods, b)
        IN  /\ Cardinality(found) = 1 =>
                /\ res.status = "ok"
                /\ \A i \in found : res.value = a.methods[i]
            /\ Cardinality(found) # 1 =>
                /\ res.status = "raised"
                /\ res.error = "KeyError"

\* A name that two Methods of the Contract share was looked up, and the
\* lookup raised.
C8_Witness ==
    /\ op = "get_method_by_name"
    /\ Cardinality(Matches(a.methods, b)) >= 2
    /\ res.status = "raised"

====
